---------------------------- MODULE Spec2Model ----------------------------
(***************************************************************************)
(* A model of the C4-WSRS dataset builder                                  *)
(*   src/tensorflow_datasets/text/c4_wsrs/c4_wsrs_utils.py                 *)
(*   src/tensorflow_datasets/text/c4_wsrs/c4_wsrs.py                       *)
(*                                                                         *)
(* Python strings are sequences of one-character strings; Python indices   *)
(* are 0-based and are kept 0-based in the variables (At and Slice do the  *)
(* conversion).  Probabilities are in hundredths: abbreviation_rate = 50   *)
(* is 0.5, and a draw of np.random.uniform is a number of hundredths in    *)
(* [0, 100).                                                               *)
(***************************************************************************)
EXTENDS Integers, Sequences, FiniteSets, TLC

VARIABLES
  pc,                            \* where the program stands
  builder_config,                \* C4WSRSConfig: the three parameters
  rows, row_idx,                 \* the csv rows and the reader's position
  abbreviation_expansions_dict,  \* the dictionary built by _split_generators
  text, sentences, sentence_idx, snippet_id,   \* extract_snippets' locals
  attempts,                      \* history: one entry per window attempt
  extracted,                     \* what extract_snippets has yielded
  queue_idx, pcoll,              \* the pipeline's position in extracted, and
                                 \* the records reverse_substitution yielded
  key, snippet,                  \* reverse_substitution's extracted_snippet
  index_to_pairs, snippet_idx, abbreviated_text, replacements,
  applied_at,                    \* history: the cursor at each replacement
  abbreviated_snippet, yielded,  \* reverse_substitution's result
  snippets_by_replacement, limit, sample_idx, sampled   \* the sampler

vars == <<pc, builder_config, rows, row_idx, abbreviation_expansions_dict,
          text, sentences, sentence_idx, snippet_id, attempts, extracted,
          queue_idx, pcoll, key, snippet, index_to_pairs, snippet_idx,
          abbreviated_text, replacements, applied_at, abbreviated_snippet,
          yielded, snippets_by_replacement, limit, sample_idx, sampled>>

loadVars == <<rows, row_idx, abbreviation_expansions_dict>>
extractVars == <<text, sentences, sentence_idx, snippet_id, attempts,
                 extracted>>
pipeVars == <<queue_idx, pcoll>>
rsVars == <<key, snippet, index_to_pairs, snippet_idx, abbreviated_text,
            replacements, applied_at, abbreviated_snippet, yielded>>
sampleVars == <<snippets_by_replacement, limit, sample_idx, sampled>>

-----------------------------------------------------------------------------
(* Bounds of the model. *)

MaxLen == 4        \* longest snippet handed to reverse_substitution
MaxRows == 2       \* most rows of the dictionary csv
MaxRepl == 3       \* most replacements one walk of the model records
MaxPieces == 3     \* most pieces a document text is made of
MaxK == 2          \* largest valid max_sentences_per_snippet
MaxGroup == 3      \* most records in one group handed to the sampler
MaxN == 3          \* largest num_snippets_per_replacement

-----------------------------------------------------------------------------
(* Python's str operations. *)

Min(a, b) == IF a < b THEN a ELSE b

LowerLetters ==
  {"a", "b", "c", "d", "e", "f", "g", "h", "i", "j", "k", "l", "m",
   "n", "o", "p", "q", "r", "s", "t", "u", "v", "w", "x", "y", "z"}
UpperLetters ==
  {"A", "B", "C", "D", "E", "F", "G", "H", "I", "J", "K", "L", "M",
   "N", "O", "P", "Q", "R", "S", "T", "U", "V", "W", "X", "Y", "Z"}
Digits == {"0", "1", "2", "3", "4", "5", "6", "7", "8", "9"}

\* str.isalnum of one character
isalnum(c) == c \in LowerLetters \cup UpperLetters \cup Digits

\* s[i] with a Python index
At(s, i) == s[i + 1]

\* s[a:b] with 0 <= a: the slice is cut at the end of s
Slice(s, a, b) == SubSeq(s, a + 1, Min(b, Len(s)))

\* str.endswith of a one-character suffix
endswith(s, c) == Len(s) > 0 /\ s[Len(s)] = c

\* str.lower
LowerOf ==
  [c \in UpperLetters |->
     CASE c = "A" -> "a" [] c = "B" -> "b" [] c = "C" -> "c" [] c = "D" -> "d"
       [] c = "E" -> "e" [] c = "F" -> "f" [] c = "G" -> "g" [] c = "H" -> "h"
       [] c = "I" -> "i" [] c = "J" -> "j" [] c = "K" -> "k" [] c = "L" -> "l"
       [] c = "M" -> "m" [] c = "N" -> "n" [] c = "O" -> "o" [] c = "P" -> "p"
       [] c = "Q" -> "q" [] c = "R" -> "r" [] c = "S" -> "s" [] c = "T" -> "t"
       [] c = "U" -> "u" [] c = "V" -> "v" [] c = "W" -> "w" [] c = "X" -> "x"
       [] c = "Y" -> "y" [] c = "Z" -> "z"]
LowerChar(c) == IF c \in UpperLetters THEN LowerOf[c] ELSE c
lower(s) == [i \in 1..Len(s) |-> LowerChar(s[i])]

\* str.strip: leading and trailing whitespace removed
IsSpace(c) == c \in {" ", "\n"}
RECURSIVE lstrip(_)
lstrip(s) == IF s # <<>> /\ IsSpace(Head(s)) THEN lstrip(Tail(s)) ELSE s
RECURSIVE rstrip(_)
rstrip(s) == IF s # <<>> /\ IsSpace(s[Len(s)])
             THEN rstrip(SubSeq(s, 1, Len(s) - 1)) ELSE s
strip(s) == rstrip(lstrip(s))

\* str.replace of one character by another
replace(s, old, new) == [i \in 1..Len(s) |-> IF s[i] = old THEN new ELSE s[i]]

\* str.split(sep).  The separators used (' ' and '. ') cannot overlap
\* themselves, so the left-to-right scan cuts at every occurrence.
SepPositions(s, sep) ==
  {i \in 1..(Len(s) - Len(sep) + 1) :
     \A k \in 1..Len(sep) : s[i + k - 1] = sep[k]}
SplitAt(s, sepLen, D) ==
  LET n == Cardinality(D)
      Nth(k) == CHOOSE i \in D : Cardinality({j \in D : j < i}) = k - 1
      first(k) == IF k = 1 THEN 1 ELSE Nth(k - 1) + sepLen
      last(k) == IF k = n + 1 THEN Len(s) ELSE Nth(k) - 1
  IN  [k \in 1..(n + 1) |-> SubSeq(s, first(k), last(k))]
split(s, sep) == SplitAt(s, Len(sep), SepPositions(s, sep))

\* sep.join(parts)
RECURSIVE join(_, _)
join(sep, parts) ==
  IF Len(parts) = 0 THEN <<>>
  ELSE IF Len(parts) = 1 THEN parts[1]
  ELSE parts[1] \o sep \o join(sep, Tail(parts))

\* str(n) of a natural number
DigitChar(d) ==
  CASE d = 0 -> "0" [] d = 1 -> "1" [] d = 2 -> "2" [] d = 3 -> "3"
    [] d = 4 -> "4" [] d = 5 -> "5" [] d = 6 -> "6" [] d = 7 -> "7"
    [] d = 8 -> "8" [] d = 9 -> "9"
RECURSIVE str(_)
str(n) == IF n < 10 THEN <<DigitChar(n)>>
          ELSE str(n \div 10) \o <<DigitChar(n % 10)>>

\* All sequences over S of length at most n
SeqsUpTo(S, n) == UNION {[1..k -> S] : k \in 0..n}

-----------------------------------------------------------------------------
(* The dictionary: c4_wsrs.py *)

\* A Python dict is a sequence of entries in insertion order.
HasKey(d, k) == \E i \in 1..Len(d) : d[i].abbreviation = k

\* abbreviation_expansions_dict[abbrev].append(exp) on a defaultdict(list)
DefaultDictAppend(d, abbrev, exp) ==
  IF HasKey(d, abbrev)
  THEN [i \in 1..Len(d) |->
          IF d[i].abbreviation = abbrev
          THEN [d[i] EXCEPT !.expansions = Append(@, exp)]
          ELSE d[i]]
  ELSE Append(d, [abbreviation |-> abbrev, expansions |-> <<exp>>])

\* _split_generators: one row of the csv reader
SplitGeneratorsReadRow ==
  /\ pc = "load"
  /\ row_idx < Len(rows)
  /\ LET row == rows[row_idx + 1]
     IN  abbreviation_expansions_dict' =
           DefaultDictAppend(abbreviation_expansions_dict, row[1], row[2])
  /\ row_idx' = row_idx + 1
  /\ UNCHANGED <<pc, builder_config, rows, extractVars, pipeVars, rsVars,
                 sampleVars>>

-----------------------------------------------------------------------------
(* The matcher: c4_wsrs_utils.py *)

RECURSIVE ExpansionPairs(_, _)
ExpansionPairs(abbreviation, expansions) ==
  IF expansions = <<>> THEN <<>>
  ELSE <<<<abbreviation, Head(expansions)>>>>
         \o ExpansionPairs(abbreviation, Tail(expansions))

RECURSIVE _get_dictionary_pairs(_)
_get_dictionary_pairs(dictionary) ==
  IF dictionary = <<>> THEN <<>>
  ELSE ExpansionPairs(Head(dictionary).abbreviation,
                      Head(dictionary).expansions)
         \o _get_dictionary_pairs(Tail(dictionary))

_snippet_contains_word_at_index_no_apostrophe(s, word, index) ==
  IF Slice(s, index, index + Len(word)) # word THEN FALSE
  ELSE IF index > 0 /\ isalnum(At(s, index - 1)) THEN FALSE
  ELSE IF (index + Len(word)) < Len(s) /\ isalnum(At(s, index + Len(word)))
       THEN FALSE
  ELSE TRUE

_snippet_contains_word_at_index(s, word, index) ==
  IF Slice(s, index, index + Len(word)) # word THEN FALSE
  ELSE IF index > 0 /\ isalnum(At(s, index - 1)) THEN FALSE
  ELSE IF index > 1 /\ At(s, index - 1) = "'" /\ isalnum(At(s, index - 2))
       THEN FALSE
  ELSE IF (index + Len(word)) < Len(s) /\ isalnum(At(s, index + Len(word)))
       THEN FALSE
  ELSE TRUE

\* the inner for loop: the pairs of the dictionary that match at snippet_idx
RECURSIVE PairsAt(_, _, _)
PairsAt(s, dict_pairs, idx) ==
  IF dict_pairs = <<>> THEN <<>>
  ELSE LET pair == Head(dict_pairs)
           rest == PairsAt(s, Tail(dict_pairs), idx)
       IN  IF ~_snippet_contains_word_at_index(s, pair[2], idx)
           THEN rest
           ELSE <<pair>> \o rest

\* the while loop, from snippet_idx on
RECURSIVE ExtractFrom(_, _, _)
ExtractFrom(s, dictionary, idx) ==
  IF ~(idx < Len(s)) THEN <<>>
  ELSE LET pairs == PairsAt(s, _get_dictionary_pairs(dictionary), idx)
           rest == ExtractFrom(s, dictionary, idx + 1)
       IN  IF pairs # <<>> THEN (idx :> pairs) @@ rest ELSE rest

_extract_abbreviation_expansion_pairs(s, dictionary) ==
  ExtractFrom(s, dictionary, 0)


-----------------------------------------------------------------------------
(* reverse_substitution and _abbreviate_snippet: c4_wsrs_utils.py *)

\* the values np.random.uniform(0, 1) is drawn from, in hundredths
Draws == {0, 50, 99}

\* random.shuffle(l): every order of l
Shuffles(l) ==
  {[i \in 1..Len(l) |-> l[p[i]]] : p \in Permutations(1..Len(l))}

AbbreviatesAtOrBelow(u, abbreviation_rate) == u <= abbreviation_rate

\* np.random.uniform(0, 1) < abbreviation_rate
Abbreviates(u, abbreviation_rate) == u < abbreviation_rate

CursorStaysAfterReplacement(idx, expansion) == idx

\* snippet_idx += len(expansion)
CursorAfterReplacement(idx, expansion) == idx + Len(expansion)

\* reverse_substitution up to the call of _abbreviate_snippet, on the
\* extracted snippet (k, s)
ReverseSubstitutionCall(k, s) ==
  LET snippet_idx_to_pairs ==
        _extract_abbreviation_expansion_pairs(s, abbreviation_expansions_dict)
  IN  /\ key' = k
      /\ snippet' = s
      /\ index_to_pairs' = snippet_idx_to_pairs
      /\ abbreviated_snippet' = s
      /\ replacements' = <<>>
      /\ applied_at' = <<>>
      /\ snippet_idx' = 0
      /\ abbreviated_text' = <<>>
      /\ yielded' = <<>>
      /\ pc' = IF DOMAIN snippet_idx_to_pairs # {} THEN "walk" ELSE "filter"

\* one iteration of the while loop of _abbreviate_snippet
AbbreviateSnippetCopy ==
  /\ abbreviated_text' = Append(abbreviated_text, At(snippet, snippet_idx))
  /\ snippet_idx' = snippet_idx + 1
  /\ UNCHANGED <<replacements, applied_at>>

AbbreviateSnippetStep ==
  /\ pc = "walk"
  /\ snippet_idx < Len(snippet)
  /\ IF snippet_idx \in DOMAIN index_to_pairs
     THEN \E pairs_and_counts \in Shuffles(index_to_pairs[snippet_idx]),
             u \in Draws :
            /\ index_to_pairs' =
                 [index_to_pairs EXCEPT ![snippet_idx] = pairs_and_counts]
            /\ LET abbreviation == pairs_and_counts[1][1]
                   expansion == pairs_and_counts[1][2]
               IN  IF Abbreviates(u, builder_config.abbreviation_rate)
                   THEN \* the model records at most MaxRepl replacements
                        /\ Len(replacements) < MaxRepl
                        /\ replacements' =
                             Append(replacements, <<abbreviation, expansion>>)
                        /\ applied_at' = Append(applied_at, snippet_idx)
                        /\ abbreviated_text' = abbreviated_text \o abbreviation
                        /\ snippet_idx' =
                             CursorAfterReplacement(snippet_idx, expansion)
                   ELSE AbbreviateSnippetCopy
     ELSE /\ AbbreviateSnippetCopy
          /\ UNCHANGED index_to_pairs
  /\ UNCHANGED <<pc, builder_config, loadVars, extractVars, pipeVars, key,
                 snippet, abbreviated_snippet, yielded, sampleVars>>

\* the loop ends: _abbreviate_snippet returns to reverse_substitution
AbbreviateSnippetReturn ==
  /\ pc = "walk"
  /\ ~(snippet_idx < Len(snippet))
  /\ abbreviated_snippet' = abbreviated_text
  /\ pc' = "filter"
  /\ UNCHANGED <<builder_config, loadVars, extractVars, pipeVars, key,
                 snippet, index_to_pairs, snippet_idx, abbreviated_text,
                 replacements, applied_at, yielded, sampleVars>>

Record(replacement, k, original, abbreviated) ==
  [replacement |-> replacement, key |-> k,
   features |-> [original_snippet |-> original,
                 abbreviated_snippet |-> abbreviated]]

Sentinel == <<<<>>, <<>>>>

RECURSIVE Distinct(_)
Distinct(l) ==
  IF l = <<>> THEN <<>>
  ELSE LET front == Distinct(SubSeq(l, 1, Len(l) - 1))
       IN  IF \E i \in 1..(Len(l) - 1) : l[i] = l[Len(l)]
           THEN front ELSE Append(front, l[Len(l)])

YieldRecordsOncePerPair(k, original, abbreviated, repl) ==
  IF repl = <<>> THEN <<Record(Sentinel, k, original, abbreviated)>>
  ELSE [i \in 1..Len(Distinct(repl)) |->
          Record(Distinct(repl)[i], k, original, abbreviated)]

\* what reverse_substitution yields once the snippet has passed the filter
YieldRecords(k, original, abbreviated, repl) ==
  (IF repl = <<>> THEN <<Record(Sentinel, k, original, abbreviated)>>
   ELSE <<>>)
  \o [i \in 1..Len(repl) |-> Record(repl[i], k, original, abbreviated)]

TooFewTokensBelowTwo(abbreviated) == Len(split(abbreviated, <<" ">>)) < 2

\* len(abbreviated_snippet.split(' ')) < 3
TooFewTokens(abbreviated) == Len(split(abbreviated, <<" ">>)) < 3

\* the rest of reverse_substitution: the filter and the yields
ReverseSubstitutionYield ==
  /\ pc = "filter"
  /\ yielded' = IF TooFewTokens(abbreviated_snippet) THEN <<>>
                ELSE YieldRecords(key, snippet, abbreviated_snippet,
                                  replacements)
  /\ pc' = "rs_done"
  /\ UNCHANGED <<builder_config, loadVars, extractVars, pipeVars, key,
                 snippet, index_to_pairs, snippet_idx, abbreviated_text,
                 replacements, applied_at, abbreviated_snippet, sampleVars>>

-----------------------------------------------------------------------------
(* Spec: the dictionary is loaded and reverse_substitution runs on one      *)
(* snippet.                                                                 *)

Url == <<"u">>

FormatKey(url, n) ==
  <<"u", "r", "l", "=">> \o url
    \o <<",", "s", "n", "i", "p", "p", "e", "t", "_", "i", "d", "=">>
    \o str(n)

SnippetChars == {"a", " ", "'"}
Snippets == SeqsUpTo(SnippetChars, MaxLen)

\* the (abbreviation, expansion) rows the csv is made of
RowValues ==
  { <<<<"x", "y">>, <<"a">>>>,
    <<<<"x">>, <<"a", " ", "a">>>>,
    <<<<"x">>, <<>>>> }

ValidRates == {0, 50, 100}

Unset == <<>>

InitExtractIdle ==
  /\ text = Unset /\ sentences = Unset /\ sentence_idx = 0 /\ snippet_id = 0
  /\ attempts = <<>> /\ extracted = <<>>

InitPipeIdle == queue_idx = 0 /\ pcoll = <<>>

InitRSIdle ==
  /\ key = Unset /\ snippet = Unset /\ index_to_pairs = <<>>
  /\ snippet_idx = 0 /\ abbreviated_text = <<>> /\ replacements = <<>>
  /\ applied_at = <<>> /\ abbreviated_snippet = Unset /\ yielded = <<>>

InitSampleIdle ==
  /\ snippets_by_replacement = Unset /\ limit = 0 /\ sample_idx = 0
  /\ sampled = <<>>

Init ==
  /\ pc = "load"
  /\ builder_config \in
       [max_sentences_per_snippet : {1}, abbreviation_rate : ValidRates,
        num_snippets_per_replacement : {1}]
  /\ rows \in SeqsUpTo(RowValues, MaxRows)
  /\ row_idx = 0
  /\ abbreviation_expansions_dict = <<>>
  /\ InitExtractIdle /\ InitPipeIdle /\ InitRSIdle /\ InitSampleIdle

\* the ReverseSubstitution stage is handed one extracted snippet
ReverseSubstitution ==
  /\ pc = "load"
  /\ row_idx = Len(rows)
  /\ \E s \in Snippets : ReverseSubstitutionCall(FormatKey(Url, 0), s)
  /\ UNCHANGED <<builder_config, loadVars, extractVars, pipeVars, sampleVars>>

Next ==
  \/ SplitGeneratorsReadRow
  \/ ReverseSubstitution
  \/ AbbreviateSnippetStep
  \/ AbbreviateSnippetReturn
  \/ ReverseSubstitutionYield

Spec == Init /\ [][Next]_vars

-----------------------------------------------------------------------------
(* Properties of reverse_substitution, under Spec. *)

RateInUnitInterval ==
  /\ 0 <= builder_config.abbreviation_rate
  /\ builder_config.abbreviation_rate <= 100

\* reverse_substitution has computed its abbreviated_snippet
Substituted == pc \in {"filter", "rs_done"}

DictPairs == _get_dictionary_pairs(abbreviation_expansions_dict)

NoLongerThanOriginal ==
  /\ Len(abbreviated_snippet) <= Len(snippet)
  /\ \A i \in 1..Len(yielded) :
       Len(yielded[i].features.abbreviated_snippet)
         <= Len(yielded[i].features.original_snippet)

\* no abbreviation of the dictionary is longer than one of its expansions
NoLongAbbreviation ==
  \A i \in 1..Len(DictPairs) : Len(DictPairs[i][1]) <= Len(DictPairs[i][2])

\* C1, as stated: for every snippet, dictionary and abbreviation_rate in
\* [0,1], the abbreviated text that reverse substitution produces is no
\* longer than the original snippet.
C1_NeverLonger == (Substituted /\ RateInUnitInterval) => NoLongerThanOriginal

\* C1, amended: when no abbreviation of the dictionary is longer than any of
\* its expansions, then for every snippet and abbreviation_rate in [0,1] the
\* abbreviated text that reverse substitution produces is no longer than the
\* original snippet.
C1_NeverLongerShortAbbreviations ==
  (Substituted /\ RateInUnitInterval /\ NoLongAbbreviation)
    => NoLongerThanOriginal

C1_Witness ==
  /\ pc = "rs_done"
  /\ RateInUnitInterval
  /\ NoLongAbbreviation
  /\ replacements # <<>>
  /\ Len(abbreviated_snippet) < Len(snippet)

\* the number of tokens of s.split(' ')
NumTokens(s) == Cardinality({i \in 1..Len(s) : s[i] = " "}) + 1

MatchMapBuilt ==
  pc \in {"walk", "filter"} /\ snippet_idx = 0 /\ replacements = <<>>

\* the word-boundary rule of the claim
MatchesAt(t, expansion, i) ==
  /\ Slice(t, i, i + Len(expansion)) = expansion
  /\ (i > 0 => ~isalnum(At(t, i - 1)))
  /\ ((i > 1 /\ At(t, i - 1) = "'") => ~isalnum(At(t, i - 2)))
  /\ ((i + Len(expansion) < Len(t)) => ~isalnum(At(t, i + Len(expansion))))

MatchingPairs(t, i) ==
  SelectSeq(DictPairs, LAMBDA pair : MatchesAt(t, pair[2], i))

\* C4: the MatchMap has index i as a key iff some pair matches at i, and its
\* value is the list of all matching pairs in dictionary iteration order,
\* never empty; a pair matches at i by the word-boundary rule.
C4_MatchMap ==
  MatchMapBuilt =>
    /\ DOMAIN index_to_pairs =
         {i \in 0..(Len(snippet) - 1) : MatchingPairs(snippet, i) # <<>>}
    /\ \A i \in DOMAIN index_to_pairs :
         /\ index_to_pairs[i] = MatchingPairs(snippet, i)
         /\ index_to_pairs[i] # <<>>

\* a map with two candidates at one index, and an index where an expansion
\* occurs but is rejected by the apostrophe rule alone
C4_Witness ==
  /\ MatchMapBuilt
  /\ \E i \in DOMAIN index_to_pairs : Len(index_to_pairs[i]) >= 2
  /\ \E i \in 2..(Len(snippet) - 1) :
       /\ i \notin DOMAIN index_to_pairs
       /\ At(snippet, i - 1) = "'"
       /\ isalnum(At(snippet, i - 2))
       /\ \E k \in 1..Len(DictPairs) :
            LET expansion == DictPairs[k][2]
            IN  /\ Slice(snippet, i, i + Len(expansion)) = expansion
                /\ ~(i + Len(expansion) < Len(snippet))

\* C5: when reverse_substitution emits anything, it emits one record per
\* entry of the replacement list, in list order and keeping repeats, each
\* keyed by that entry, or one record keyed by the sentinel when the list is
\* empty; all records carry the same document key and the same payload.
C5_OneRecordPerReplacement ==
  (pc = "rs_done" /\ yielded # <<>>) =>
    /\ replacements = <<>> =>
         (Len(yielded) = 1 /\ yielded[1].replacement = <<<<>>, <<>>>>)
    /\ replacements # <<>> =>
         /\ Len(yielded) = Len(replacements)
         /\ \A i \in 1..Len(yielded) :
              yielded[i].replacement = replacements[i]
    /\ \A i \in 1..Len(yielded) :
         /\ yielded[i].key = key
         /\ yielded[i].features =
              [original_snippet |-> snippet,
               abbreviated_snippet |-> abbreviated_snippet]

C5_Witness ==
  /\ pc = "rs_done"
  /\ Len(yielded) >= 2
  /\ yielded[1].replacement = yielded[2].replacement
  /\ Len(replacements) = Len(yielded)

\* the original text with the recorded spans, from the k-th on, replaced by
\* their abbreviations, starting at Python index from
RECURSIVE Rebuild(_, _, _, _, _)
Rebuild(t, starts, repl, k, from) ==
  IF k > Len(repl) THEN Slice(t, from, Len(t))
  ELSE Slice(t, from, starts[k]) \o repl[k][1]
         \o Rebuild(t, starts, repl, k + 1, starts[k] + Len(repl[k][2]))

\* the walk of _abbreviate_snippet has returned
Walked == Substituted /\ DOMAIN index_to_pairs # {}

InsideReplacedSpan(i) ==
  \E k \in 1..Len(applied_at) :
    applied_at[k] < i /\ i < applied_at[k] + Len(replacements[k][2])

\* C6: the replacements are in left-to-right order: each applied pair is a
\* candidate of the MatchMap at the index where the cursor stood, the
\* replaced spans do not overlap and have strictly increasing start indices,
\* the abbreviated text is the original with those spans replaced by their
\* abbreviations, and at abbreviation_rate = 1.0 every MatchMap index the
\* cursor reaches is replaced.
C6_LeftToRightSpans ==
  Walked =>
    /\ Len(applied_at) = Len(replacements)
    /\ \A k \in 1..Len(replacements) :
         /\ applied_at[k] \in DOMAIN index_to_pairs
         /\ \E j \in 1..Len(index_to_pairs[applied_at[k]]) :
              index_to_pairs[applied_at[k]][j] = replacements[k]
    /\ \A k \in 1..(Len(replacements) - 1) :
         /\ applied_at[k] < applied_at[k + 1]
         /\ applied_at[k] + Len(replacements[k][2]) <= applied_at[k + 1]
    /\ abbreviated_snippet = Rebuild(snippet, applied_at, replacements, 1, 0)
    /\ builder_config.abbreviation_rate = 100 =>
         \A i \in DOMAIN index_to_pairs :
           InsideReplacedSpan(i) \/ (\E k \in 1..Len(applied_at) :
                                       applied_at[k] = i)

NoEmptyExpansion == \A i \in 1..Len(DictPairs) : DictPairs[i][2] # <<>>

\* C6 holds of the walk when the dictionary has no empty expansion
C6_HoldsWithoutEmptyExpansion == NoEmptyExpansion => C6_LeftToRightSpans

C10_DistinctExpansions ==
  pc # "load" =>
    \A i \in 1..Len(abbreviation_expansions_dict) :
      LET exps == abbreviation_expansions_dict[i].expansions
      IN  \A j, k \in 1..Len(exps) : j # k => exps[j] # exps[k]

-----------------------------------------------------------------------------
(* extract_snippets: c4_wsrs_utils.py *)

MaxSnippetChars == 1024

TooLongAtLimit(s) == Len(s) >= MaxSnippetChars

\* len(snippet) > 1024
TooLong(s) == Len(s) > MaxSnippetChars

\* np.random.randint(1, max_sentences_per_snippet + 1): the values it can
\* return; none when low >= high, and the call raises ValueError
RandInt(low, high) == low..(high - 1)

\* sentences[a:b]
SentenceSlice(l, a, b) == SubSeq(l, a + 1, Min(b, Len(l)))

\* the lines before the loop, on the document text doc_text
ExtractSnippetsCall(doc_text) ==
  /\ text' = replace(doc_text, "\n", " ")
  /\ sentences' = split(text', <<".", " ">>)
  /\ sentence_idx' = 0
  /\ snippet_id' = 0
  /\ attempts' = <<>>
  /\ extracted' = <<>>
  /\ pc' = "extract"

\* one iteration of the while loop
ExtractSnippetsStep ==
  /\ pc = "extract"
  /\ sentence_idx < Len(sentences)
  /\ \E num_sentences_sampled \in
          RandInt(1, builder_config.max_sentences_per_snippet + 1),
        u \in Draws :
       LET joined == join(<<".", " ">>,
                          SentenceSlice(sentences, sentence_idx,
                                        sentence_idx + num_sentences_sampled))
           period == ~endswith(joined, ".") /\ u < 50
           with_period == IF period THEN Append(joined, ".") ELSE joined
           final == strip(lower(with_period))
       IN  /\ attempts' = Append(attempts, [start |-> sentence_idx,
                                            n |-> num_sentences_sampled,
                                            period |-> period])
           /\ snippet_id' = snippet_id + 1
           /\ sentence_idx' = sentence_idx + num_sentences_sampled
           /\ extracted' =
                IF TooLong(final) THEN extracted
                ELSE Append(extracted,
                            [key |-> FormatKey(Url, snippet_id),
                             snippet |-> final])
  /\ UNCHANGED <<pc, builder_config, loadVars, text, sentences, pipeVars,
                 rsVars, sampleVars>>

\* np.random.randint raises ValueError: max_sentences_per_snippet < 1
ExtractSnippetsRaise ==
  /\ pc = "extract"
  /\ sentence_idx < Len(sentences)
  /\ RandInt(1, builder_config.max_sentences_per_snippet + 1) = {}
  /\ pc' = "error"
  /\ UNCHANGED <<builder_config, loadVars, extractVars, pipeVars, rsVars,
                 sampleVars>>

\* the loop ends: the generator is exhausted
ExtractSnippetsReturn ==
  /\ pc = "extract"
  /\ ~(sentence_idx < Len(sentences))
  /\ pc' = "extracted"
  /\ UNCHANGED <<builder_config, loadVars, extractVars, pipeVars, rsVars,
                 sampleVars>>

-----------------------------------------------------------------------------
(* SpecExtract: extract_snippets runs on one document.                      *)

\* a sentence of exactly 1024 characters: one more character and it is
\* dropped
Long == [i \in 1..MaxSnippetChars |-> "a"]

Pieces == { <<"A", "b">>, <<".", " ">>, <<"\n">>, <<".">>, Long }

RECURSIVE Concat(_)
Concat(parts) == IF parts = <<>> THEN <<>>
                 ELSE Head(parts) \o Concat(Tail(parts))

DocTexts == {Concat(parts) : parts \in SeqsUpTo(Pieces, MaxPieces)}

InitLoadIdle ==
  rows = <<>> /\ row_idx = 0 /\ abbreviation_expansions_dict = <<>>

InitExtract ==
  /\ pc = "doc"
  /\ builder_config \in
       [max_sentences_per_snippet : 1..MaxK, abbreviation_rate : {100},
        num_snippets_per_replacement : {1}]
  /\ InitLoadIdle /\ InitExtractIdle /\ InitPipeIdle /\ InitRSIdle
  /\ InitSampleIdle

\* the ExtractSnippets stage is handed one document
ExtractSnippets ==
  /\ pc = "doc"
  /\ \E doc_text \in DocTexts : ExtractSnippetsCall(doc_text)
  /\ UNCHANGED <<builder_config, loadVars, pipeVars, rsVars, sampleVars>>

NextExtract ==
  \/ ExtractSnippets
  \/ ExtractSnippetsStep
  \/ ExtractSnippetsReturn

SpecExtract == InitExtract /\ [][NextExtract]_vars

\* the text of the a-th window attempt, as the claim describes it: the
\* window's sentences joined, the period when one was added, lowercased and
\* trimmed
WindowText(a) ==
  LET first == attempts[a].start + 1
      last == Min(attempts[a].start + attempts[a].n, Len(sentences))
      window == join(<<".", " ">>, SubSeq(sentences, first, last))
  IN  strip(lower(IF attempts[a].period THEN window \o <<".">> ELSE window))

\* the attempts whose window text has at most 1024 characters, in order
KeptAttempts ==
  SelectSeq([a \in 1..Len(attempts) |-> a],
            LAMBDA a : Len(WindowText(a)) <= 1024)

\* C7: the counter is incremented on every attempt, dropped ones included;
\* every emitted snippet has at most 1024 characters and is the untruncated
\* lowercased, trimmed window text; the emitted keys
\* "url=<url>,snippet_id=<n>" are pairwise distinct, n strictly increases
\* and equals the number of earlier attempts.
C7_SequentialSnippetIds ==
  pc \in {"extract", "extracted"} =>
    LET kept == KeptAttempts
    IN  /\ snippet_id = Len(attempts)
        /\ Len(extracted) = Len(kept)
        /\ \A j \in 1..Len(extracted) :
             /\ Len(extracted[j].snippet) <= 1024
             /\ extracted[j].snippet = WindowText(kept[j])
             /\ extracted[j].key = FormatKey(Url, kept[j] - 1)
        /\ \A j, k \in 1..Len(extracted) :
             j < k => /\ extracted[j].key # extracted[k].key
                      /\ kept[j] < kept[k]

\* a snippet emitted after a dropped attempt: its snippet_id is not its
\* place among the emitted snippets
C7_Witness ==
  /\ pc = "extracted"
  /\ Len(attempts) > Len(extracted)
  /\ \E j \in 1..Len(extracted) :
       /\ extracted[j].key # FormatKey(Url, j - 1)
       /\ extracted[j].key = FormatKey(Url, j)

-----------------------------------------------------------------------------
(* sample_snippets_by_replacement: c4_wsrs_utils.py *)

LimitPassed(l) == l < 0

\* if limit <= 0: break
LimitReached(l) == l <= 0

\* the lines before the loop, on one group
SampleCall(group) ==
  /\ snippets_by_replacement' = group
  /\ limit' = builder_config.num_snippets_per_replacement
  /\ sample_idx' = 0
  /\ sampled' = <<>>
  /\ pc' = IF builder_config.num_snippets_per_replacement = 0
           THEN "sampled" ELSE "sample"

\* one iteration of the for loop
SampleStep ==
  /\ pc = "sample"
  /\ sample_idx < Len(snippets_by_replacement[2])
  /\ sampled' = Append(sampled, snippets_by_replacement[2][sample_idx + 1])
  /\ limit' = limit - 1
  /\ sample_idx' = sample_idx + 1
  /\ pc' = IF LimitReached(limit') THEN "sampled" ELSE "sample"
  /\ UNCHANGED <<builder_config, loadVars, extractVars, pipeVars, rsVars,
                 snippets_by_replacement>>

\* the group is exhausted before the limit is reached
SampleReturn ==
  /\ pc = "sample"
  /\ ~(sample_idx < Len(snippets_by_replacement[2]))
  /\ pc' = "sampled"
  /\ UNCHANGED <<builder_config, loadVars, extractVars, pipeVars, rsVars,
                 sampleVars>>

-----------------------------------------------------------------------------
(* SpecSample: the sampler runs on one group.                               *)

Features(original, abbreviated) ==
  [original_snippet |-> original, abbreviated_snippet |-> abbreviated]

\* the (key, features) elements the groups are made of
GroupElements ==
  { <<FormatKey(Url, 0), Features(<<"a", " ", " ">>, <<"x", " ", " ">>)>>,
    <<FormatKey(Url, 1), Features(<<" ", "a", " ">>, <<" ", "x", " ">>)>> }

Groups ==
  {<<<<<<"x">>, <<"a">>>>, l>> : l \in SeqsUpTo(GroupElements, MaxGroup)}

InitSample ==
  /\ pc = "group"
  /\ builder_config \in
       [max_sentences_per_snippet : {1}, abbreviation_rate : {100},
        num_snippets_per_replacement : (-1)..MaxN]
  /\ InitLoadIdle /\ InitExtractIdle /\ InitPipeIdle /\ InitRSIdle
  /\ InitSampleIdle

\* the SampleSnippetsByReplacement stage is handed one group
SampleSnippetsByReplacement ==
  /\ pc = "group"
  /\ \E group \in Groups : SampleCall(group)
  /\ UNCHANGED <<builder_config, loadVars, extractVars, pipeVars, rsVars>>

NextSample ==
  \/ SampleSnippetsByReplacement
  \/ SampleStep
  \/ SampleReturn

SpecSample == InitSample /\ [][NextSample]_vars

\* C2: with cap N = 0 the sampler yields no record; with N > 0 it yields
\* exactly the first min(N, group size) records of the group, in the
\* group's order, and never more than N.
C2_FirstNOfGroup ==
  LET N == builder_config.num_snippets_per_replacement
      group == snippets_by_replacement[2]
  IN  /\ (pc \in {"sample", "sampled"} /\ N >= 0) => Len(sampled) <= N
      /\ (pc = "sampled" /\ N = 0) => sampled = <<>>
      /\ (pc = "sampled" /\ N > 0) =>
           sampled = SubSeq(group, 1, Min(N, Len(group)))

\* a group larger than the cap, cut to its first N records
C2_Witness ==
  /\ pc = "sampled"
  /\ builder_config.num_snippets_per_replacement > 0
  /\ Len(snippets_by_replacement[2])
       > builder_config.num_snippets_per_replacement
  /\ Len(sampled) = builder_config.num_snippets_per_replacement
  /\ sampled[1] # snippets_by_replacement[2][Len(snippets_by_replacement[2])]

-----------------------------------------------------------------------------
(* SpecPipeline: a builder configuration is constructed and                 *)
(* _generate_examples runs its stages on one document: c4_wsrs.py           *)

\* the arguments a caller may pass to C4WSRSConfig, valid or not
ConfigArgs ==
  [max_sentences_per_snippet : 0..MaxK,
   abbreviation_rate : {-50, 0, 50, 100, 150},
   num_snippets_per_replacement : (-1)..MaxN]

\* the csv rows and the document of the run
PipelineRows == << <<<<"x", "y">>, <<"a">>>> >>
PipelineDoc == <<"A", " ", "a", " ", "a", ".", " ", "a", " ", " ">>

InitPipeline ==
  /\ pc = "config"
  /\ builder_config = Unset
  /\ rows = PipelineRows /\ row_idx = 0 /\ abbreviation_expansions_dict = <<>>
  /\ InitExtractIdle /\ InitPipeIdle /\ InitRSIdle /\ InitSampleIdle

\* C4WSRSConfig.__init__: the three parameters are stored as given
C4WSRSConfigInit ==
  /\ pc = "config"
  /\ \E args \in ConfigArgs :
       builder_config' =
         [max_sentences_per_snippet |-> args.max_sentences_per_snippet,
          abbreviation_rate |-> args.abbreviation_rate,
          num_snippets_per_replacement |-> args.num_snippets_per_replacement]
  /\ pc' = "load"
  /\ UNCHANGED <<loadVars, extractVars, pipeVars, rsVars, sampleVars>>

\* 'ExtractSnippets' >> beam.FlatMap(extract_snippets, ...)
PipelineExtractSnippets ==
  /\ pc = "load"
  /\ row_idx = Len(rows)
  /\ ExtractSnippetsCall(PipelineDoc)
  /\ UNCHANGED <<builder_config, loadVars, pipeVars, rsVars, sampleVars>>

\* 'ReverseSubstitution' >> beam.FlatMap(reverse_substitution, ...) on the
\* next extracted snippet
PipelineReverseSubstitution ==
  /\ pc = "extracted"
  /\ queue_idx < Len(extracted)
  /\ ReverseSubstitutionCall(extracted[queue_idx + 1].key,
                             extracted[queue_idx + 1].snippet)
  /\ queue_idx' = queue_idx + 1
  /\ UNCHANGED <<builder_config, loadVars, extractVars, pcoll, sampleVars>>

\* the records reverse_substitution yielded join the stage's output
PipelineCollect ==
  /\ pc = "rs_done"
  /\ pcoll' = pcoll \o yielded
  /\ pc' = "extracted"
  /\ UNCHANGED <<builder_config, loadVars, extractVars, queue_idx, rsVars,
                 sampleVars>>

\* the records of pcoll keyed by replacement, as (key, features) elements
GroupOf(replacement) ==
  LET own == SelectSeq(pcoll, LAMBDA r : r.replacement = replacement)
  IN  <<replacement, [i \in 1..Len(own) |-> <<own[i].key, own[i].features>>]>>

\* 'GroupByReplacement' >> beam.GroupByKey() and
\* 'SampleSnippetsByReplacement' >> beam.FlatMap(...) on one of the groups
PipelineSample ==
  /\ pc = "extracted"
  /\ queue_idx = Len(extracted)
  /\ \E i \in 1..Len(pcoll) : SampleCall(GroupOf(pcoll[i].replacement))
  /\ UNCHANGED <<builder_config, loadVars, extractVars, pipeVars, rsVars>>

NextPipeline ==
  \/ C4WSRSConfigInit
  \/ SplitGeneratorsReadRow
  \/ PipelineExtractSnippets
  \/ ExtractSnippetsStep
  \/ ExtractSnippetsRaise
  \/ ExtractSnippetsReturn
  \/ PipelineReverseSubstitution
  \/ AbbreviateSnippetStep
  \/ AbbreviateSnippetReturn
  \/ ReverseSubstitutionYield
  \/ PipelineCollect
  \/ PipelineSample
  \/ SampleStep
  \/ SampleReturn

SpecPipeline == InitPipeline /\ [][NextPipeline]_vars

ValidConfig(c) ==
  /\ c.max_sentences_per_snippet >= 1
  /\ 0 <= c.abbreviation_rate /\ c.abbreviation_rate <= 100
  /\ c.num_snippets_per_replacement >= 0

\* a document is being or has been processed
DocumentProcessing ==
  pc \in {"extract", "extracted", "walk", "filter", "rs_done", "sample",
          "sampled"}

\* C9: a configuration with abbreviation_rate outside [0,1],
\* max_sentences_per_snippet < 1 or a negative num_snippets_per_replacement
\* is rejected at configuration time, before any document is processed: no
\* snippet is extracted, substituted or sampled under it.
C9_InvalidConfigRejected ==
  (pc # "config" /\ ~ValidConfig(builder_config)) =>
    /\ ~DocumentProcessing
    /\ extracted = <<>>
    /\ replacements = <<>> /\ pcoll = <<>>
    /\ sampled = <<>>

-----------------------------------------------------------------------------
(* Termination of the walk of _abbreviate_snippet, under Spec. *)

\* the while loop of _abbreviate_snippet is about to run an iteration
InWalkLoop == pc = "walk" /\ snippet_idx < Len(snippet)

\* C11: the walk of _abbreviate_snippet terminates for every snippet,
\* MatchMap and abbreviation_rate: each loop iteration strictly advances the
\* cursor, so the walk ends after at most len(snippet) iterations (and so
\* records at most len(snippet) replacements), an empty-string expansion in
\* the dictionary included.
C11_WalkAdvances ==
  /\ [][InWalkLoop => snippet_idx' > snippet_idx]_vars
  /\ [](pc \in {"walk", "filter", "rs_done"}
          => Len(replacements) <= Len(snippet))

\* C11 holds of the walk when the dictionary has no empty expansion
C11_WalkAdvancesWithoutEmptyExpansion ==
  /\ [][(InWalkLoop /\ NoEmptyExpansion) => snippet_idx' > snippet_idx]_vars
  /\ []((pc \in {"walk", "filter", "rs_done"} /\ NoEmptyExpansion)
          => Len(replacements) <= Len(snippet))

=============================================================================
